---- MODULE Spec2Model ----
(***************************************************************************)
(* Model of src/discord-webhook-async.py: the DiscordWebhook client, its   *)
(* lazily created shared aiohttp session, the public operations and the    *)
(* retry loop of _send_request, run by cooperative asyncio tasks on one    *)
(* event-loop thread.                                                      *)
(***************************************************************************)
EXTENDS Integers, Sequences, FiniteSets, TLC

(* ------------------------------ bounds -------------------------------- *)

\* largest retry budget a client is constructed with
MaxRetries == 2
\* number of public operations called on the client in one run (all tasks)
MaxCalls == 3

\* the asyncio tasks sharing the client
Tasks == {1, 2}
\* retry budgets given to the constructor (the code accepts any int)
RetriesArgs == {0 - 1} \cup (0..MaxRetries)
\* backoff factors given to the constructor, in whole time units
BackoffArgs == {1, 3}
\* message ids given to edit_message / delete_message
MessageIds == {"42"}
\* paths given to send_file; "missing" cannot be opened
FilePaths == {"f", "missing"}

(* --------------------------- Python values ---------------------------- *)

None == <<"None">>
Str(s) == <<"str", s>>
Num(n) == <<"int", n>>
List(s) == <<"list", s>>
Dict(f) == <<"dict", f>>

\* Python truth value of a value
Truthy(v) ==
  CASE v[1] = "None" -> FALSE
    [] v[1] = "str" -> v[2] # ""
    [] v[1] = "int" -> v[2] # 0
    [] v[1] = "list" -> Len(v[2]) > 0
    [] v[1] = "dict" -> DOMAIN v[2] # {}
    [] OTHER -> TRUE

\* x or y
Or(x, y) == IF Truthy(x) THEN x ELSE y

\* the url given to the constructor
BaseUrl == Str(<<"base">>)

\* the sub-resource path forgotten
MessageUrl_Base(base, id) == base

\* f"{self.url}/messages/{message_id}"
MessageUrl(base, id) == Str(base[2] \o <<"/messages/", id>>)

(* --------------------------- payload builders -------------------------- *)

MessagePayload(content, username, avatar_url, embed) ==
  [content |-> content, username |-> username, avatar_url |-> avatar_url,
   embeds |-> IF Truthy(embed) THEN List(<<embed>>) ELSE None]

\* the fields argument stored as it came, without the default []
Embed_FieldsPassed(title, description, color, fields, footer, image_url, thumbnail_url) ==
  [title |-> title, description |-> description, color |-> color,
   fields |-> fields,
   footer |-> IF Truthy(footer) THEN Dict([text |-> footer]) ELSE None,
   image |-> IF Truthy(image_url) THEN Dict([url |-> image_url]) ELSE None,
   thumbnail |-> IF Truthy(thumbnail_url) THEN Dict([url |-> thumbnail_url]) ELSE None]

Embed(title, description, color, fields, footer, image_url, thumbnail_url) ==
  [title |-> title, description |-> description, color |-> color,
   fields |-> IF Truthy(fields) THEN fields ELSE List(<<>>),
   footer |-> IF Truthy(footer) THEN Dict([text |-> footer]) ELSE None,
   image |-> IF Truthy(image_url) THEN Dict([url |-> image_url]) ELSE None,
   thumbnail |-> IF Truthy(thumbnail_url) THEN Dict([url |-> thumbnail_url]) ELSE None]

FilePayload(content, username, avatar_url) ==
  [content |-> content, username |-> username, avatar_url |-> avatar_url]

EmptyPayload == [x \in {} |-> None]

\* arguments the callers pass
Contents == {Str("hi")}
Footers == {None, Str("F")}

(* ----------------------- outcomes of one attempt ---------------------- *)

\* decoded JSON bodies of 2xx responses
Bodies == {Dict([id |-> "1"]), Dict([id |-> "2"])}

\* the class hierarchy before Python 3.8, where CancelledError is an Exception
Base_Py37 ==
  [ClientResponseError |-> "ClientError",
   ClientConnectionError |-> "ClientError",
   ClientError |-> "Exception",
   RuntimeError |-> "Exception",
   FileNotFoundError |-> "Exception",
   CancelledError |-> "Exception",
   Exception |-> "BaseException",
   BaseException |-> "object"]

\* direct base class of each exception class an attempt can raise
Base ==
  [ClientResponseError |-> "ClientError",
   ClientConnectionError |-> "ClientError",
   ClientError |-> "Exception",
   RuntimeError |-> "Exception",
   FileNotFoundError |-> "Exception",
   CancelledError |-> "BaseException",
   Exception |-> "BaseException",
   BaseException |-> "object"]

RECURSIVE IsInstance(_, _)
IsInstance(cls, of) ==
  IF cls = of THEN TRUE
  ELSE IF cls \notin DOMAIN Base THEN FALSE
  ELSE IsInstance(Base[cls], of)

Ok(body) == [cls |-> "ok", val |-> body]
Exc(cls) == [cls |-> cls, val |-> Str("detail")]
NoOutcome == [cls |-> "none", val |-> None]

\* what awaiting session.request / raise_for_status / response.json() can
\* deliver: a decoded body, or a raised exception. Which of them an attempt
\* gets is up to the HTTP library and the network, so every one is allowed
\* on every attempt (a 2xx response whose body does not decode is one of the
\* failures); CancelledError is the cancellation of the awaiting task.
Failures == {Exc("ClientResponseError"), Exc("ClientConnectionError"), Exc("RuntimeError")}
Outcomes == {Ok(b) : b \in Bodies} \cup Failures \cup {Exc("CancelledError")}

\* the except clauses tried in the wrong order: ClientError first
ExceptClause_Reordered(cls) ==
  IF IsInstance(cls, "ClientError") THEN "ClientError"
  ELSE IF IsInstance(cls, "ClientResponseError") THEN "ClientResponseError"
  ELSE IF IsInstance(cls, "Exception") THEN "Exception"
  ELSE "none"

\* the try statement without its last clause, except Exception
ExceptClause_NoGeneric(cls) ==
  IF IsInstance(cls, "ClientResponseError") THEN "ClientResponseError"
  ELSE IF IsInstance(cls, "ClientError") THEN "ClientError"
  ELSE "none"

\* the except clause of the try statement that catches an exception
ExceptClause(cls) ==
  IF IsInstance(cls, "ClientResponseError") THEN "ClientResponseError"
  ELSE IF IsInstance(cls, "ClientError") THEN "ClientError"
  ELSE IF IsInstance(cls, "Exception") THEN "Exception"
  ELSE "none"

\* the error descriptor each except clause returns on the last attempt
ErrorResult(clause, e) ==
  CASE clause = "ClientResponseError" -> Dict([error |-> <<"Max retries reached: ", e.val[2]>>])
    [] clause = "ClientError" -> Dict([error |-> <<"Request failed: ", e.val[2]>>])
    [] clause = "Exception" -> Dict([error |-> <<"Unexpected error: ", e.val[2]>>])

(* ---------------------------- retry arithmetic ------------------------ *)

RECURSIVE Pow2(_)
Pow2(n) == IF n <= 0 THEN 1 ELSE 2 * Pow2(n - 1)

\* while attempt < self.retries
LoopCond_Strict(a, r) == a < r

\* while attempt <= self.retries
LoopCond(a, r) == a <= r

\* the last attempt recognised one attempt late
LastAttempt_OffByOne(a, r) == a = r + 1

\* if attempt == self.retries
LastAttempt(a, r) == a = r

\* the increment forgotten
NextAttempt_Stuck(a) == a

\* attempt += 1
NextAttempt(a) == a + 1

\* the exponent taken before the increment
BackoffTime_PreIncrement(factor, a) == factor * Pow2(a - 1)

\* a linear backoff
BackoffTime_Linear(factor, a) == factor * a

\* backoff_time = self.backoff_factor * (2 ** attempt)
BackoffTime(factor, a) == factor * Pow2(a)

\* the decoded body not returned
SuccessResult_Dropped(e) == None

\* return await response.json()
SuccessResult(e) == e.val

(* -------------------------------- state -------------------------------- *)

VARIABLES
  url, retries, backoff_factor, session,   \* the client's fields
  sessionObjs,     \* the sessions _get_session created, in order: "live" / "closed"
  own,             \* the session send_file created in each task: "none" / "live" / "closed"
  running,         \* the task executing on the event-loop thread, 0 when idle
  ncalls,          \* public operations called so far
  pc,              \* each task's position
  op,              \* the public operation each task is in
  message_id, file_path,   \* parameters of edit_message / delete_message, send_file
  method, req_url, data, files, lsession, attempt, backoff_time,  \* locals of _send_request
  last,            \* outcome of the task's latest attempt
  reqs,            \* the HTTP attempts issued in the current call: method, url, session, data
  slept,           \* the time.sleep durations of the current call
  handed,          \* state of the session _get_session returned, when it returned
  result, raised   \* what the call returned / the exception it raised

client == <<url, retries, backoff_factor, session>>
locals == <<message_id, file_path, method, req_url, data, files, lsession, attempt, backoff_time>>
history == <<last, reqs, slept, handed, result, raised>>
vars == <<client, sessionObjs, own, running, ncalls, pc, op, locals, history>>

\* Session objects are named by integers: i > 0 is the i-th session that
\* _get_session created, 0 - t the session send_file created in task t, and
\* 0 is None.
OwnRef(t) == 0 - t
StateOf(ref) == IF ref > 0 THEN sessionObjs[ref] ELSE own[0 - ref]

InCall(t) == pc[t] \in {"loop", "await", "sleep"}
Finished(t) == pc[t] \in {"returned", "raised"}

Init ==
  /\ url = BaseUrl
  /\ retries \in RetriesArgs
  /\ backoff_factor \in BackoffArgs
  /\ session = 0
  /\ sessionObjs = <<>>
  /\ own = [t \in Tasks |-> "none"]
  /\ running = 0
  /\ ncalls = 0
  /\ pc = [t \in Tasks |-> "idle"]
  /\ op = [t \in Tasks |-> "none"]
  /\ message_id = [t \in Tasks |-> None]
  /\ file_path = [t \in Tasks |-> None]
  /\ method = [t \in Tasks |-> "none"]
  /\ req_url = [t \in Tasks |-> None]
  /\ data = [t \in Tasks |-> EmptyPayload]
  /\ files = [t \in Tasks |-> None]
  /\ lsession = [t \in Tasks |-> 0]
  /\ attempt = [t \in Tasks |-> 0]
  /\ backoff_time = [t \in Tasks |-> 0]
  /\ last = [t \in Tasks |-> NoOutcome]
  /\ reqs = [t \in Tasks |-> <<>>]
  /\ slept = [t \in Tasks |-> <<>>]
  /\ handed = [t \in Tasks |-> "none"]
  /\ result = [t \in Tasks |-> None]
  /\ raised = [t \in Tasks |-> "none"]

(* ------------------------------ sessions ------------------------------ *)

\* a new session on every call
NeedsNewSession_Always(s) == TRUE

\* if not self.session
NeedsNewSession(s) == s = 0

\* aiohttp.ClientSession(): a new live session object, named by its index
NewSession(objs) == Append(objs, "live")

\* self.session after _get_session
SessionAfterGet(s, objs) == IF NeedsNewSession(s) THEN Len(objs) + 1 ELSE s

\* aiohttp.ClientSession() constructed on every call, before the test
ObjsAfterGet_Eager(s, objs) == NewSession(objs)

\* the session objects after _get_session
ObjsAfterGet(s, objs) == IF NeedsNewSession(s) THEN NewSession(objs) ELSE objs

\* await session.close()
Closed(objs, s) == [objs EXCEPT ![s] = "closed"]

\* self.session after close()
SessionAfterClose(s) == s

\* close() that fetches the session through _get_session
ObjsAfterClose_ViaGet(s, objs) == Closed(ObjsAfterGet(s, objs), SessionAfterGet(s, objs))

\* close() that closes nothing
ObjsAfterClose_Skipped(s, objs) == objs

\* the session objects after close(): if self.session: await self.session.close()
ObjsAfterClose(s, objs) == IF s # 0 THEN Closed(objs, s) ELSE objs

(* ------------------------- entering an operation ---------------------- *)

CanCall(t) ==
  /\ running = 0
  /\ pc[t] = "idle"
  /\ ncalls < MaxCalls

\* the locals and the history of task t at the start of a call
Begin(t, o, m, u, d, f, s, x) ==
  /\ ncalls' = ncalls + 1
  /\ op' = [op EXCEPT ![t] = o]
  /\ method' = [method EXCEPT ![t] = m]
  /\ req_url' = [req_url EXCEPT ![t] = u]
  /\ data' = [data EXCEPT ![t] = d]
  /\ files' = [files EXCEPT ![t] = f]
  /\ lsession' = [lsession EXCEPT ![t] = s]
  /\ attempt' = [attempt EXCEPT ![t] = 0]
  /\ backoff_time' = [backoff_time EXCEPT ![t] = 0]
  /\ last' = [last EXCEPT ![t] = NoOutcome]
  /\ reqs' = [reqs EXCEPT ![t] = <<>>]
  /\ slept' = [slept EXCEPT ![t] = <<>>]
  /\ result' = [result EXCEPT ![t] = None]
  /\ raised' = [raised EXCEPT ![t] = x]

\* url = url or self.url assigns the local name only
UrlAfterDispatch_Stored(selfurl, u) == Or(u, selfurl)

\* self.url after _send_request(..., url=u)
UrlAfterDispatch(selfurl, u) == selfurl

\* _send_request(data, method, url=u) on the shared session, up to the loop;
\* id is the message_id of the calling operation
SendRequest(t, o, id, d, m, u) ==
  /\ CanCall(t)
  /\ session' = SessionAfterGet(session, sessionObjs)
  /\ sessionObjs' = ObjsAfterGet(session, sessionObjs)
  /\ url' = UrlAfterDispatch(url, u)
  /\ Begin(t, o, m, Or(u, url), d, None, session', "none")
  /\ message_id' = [message_id EXCEPT ![t] = id]
  /\ file_path' = [file_path EXCEPT ![t] = None]
  /\ handed' = [handed EXCEPT ![t] = sessionObjs'[session']]
  /\ pc' = [pc EXCEPT ![t] = "loop"]
  /\ running' = t
  /\ UNCHANGED <<retries, backoff_factor, own>>

send_message(t) ==
  \E content \in Contents :
    SendRequest(t, "send_message", None, MessagePayload(content, None, None, None),
                "POST", None)

send_embed(t) ==
  \E footer \in Footers :
    LET embed == Dict(Embed(Str("T"), Str("D"), Num(0), None, footer, None, None))
    IN SendRequest(t, "send_embed", None, MessagePayload(None, None, None, embed),
                   "POST", None)

edit_message(t) ==
  \E id \in MessageIds, content \in Contents :
    SendRequest(t, "edit_message", Str(id), MessagePayload(content, None, None, None),
                "PATCH", MessageUrl(url, id))

delete_message(t) ==
  \E id \in MessageIds :
    SendRequest(t, "delete_message", Str(id), EmptyPayload, "DELETE", MessageUrl(url, id))

get_webhook_info(t) ==
  SendRequest(t, "get_webhook_info", None, EmptyPayload, "GET", None)

\* the file system: which paths open(file_path, 'rb') can open
Readable(path) == path # "missing"

\* open() never failing
OpenRaises_Never(path) == FALSE

\* with open(file_path, 'rb') as f: raises when the path cannot be opened
OpenRaises(path) == ~Readable(path)

\* the session argument ignored
UseGiven_Never(given) == FALSE

\* session = session or await self._get_session(): a session that was
\* passed in is used and _get_session is not called
UseGiven(given) == given # 0

\* send_file: a session of its own; open() raises when the path cannot be
\* read, and leaving "async with" closes the session
send_file(t) ==
  \E path \in FilePaths, content \in Contents :
    LET given == UseGiven(OwnRef(t)) IN
    /\ CanCall(t)
    /\ message_id' = [message_id EXCEPT ![t] = None]
    /\ file_path' = [file_path EXCEPT ![t] = Str(path)]
    /\ IF OpenRaises(path)
       THEN /\ Begin(t, "send_file", "none", None, EmptyPayload, None, OwnRef(t),
                     "FileNotFoundError")
            /\ own' = [own EXCEPT ![t] = "closed"]
            /\ pc' = [pc EXCEPT ![t] = "raised"]
            /\ handed' = [handed EXCEPT ![t] = "none"]
            /\ UNCHANGED <<session, sessionObjs>>
       ELSE /\ session' = IF given THEN session ELSE SessionAfterGet(session, sessionObjs)
            /\ sessionObjs' = IF given THEN sessionObjs ELSE ObjsAfterGet(session, sessionObjs)
            /\ Begin(t, "send_file", "POST", Or(None, url),
                     FilePayload(content, None, None), Dict([file |-> Str(path)]),
                     IF given THEN OwnRef(t) ELSE session', "none")
            /\ own' = [own EXCEPT ![t] = "live"]
            /\ pc' = [pc EXCEPT ![t] = "loop"]
            /\ handed' = [handed EXCEPT ![t] =
                             IF given THEN "none" ELSE sessionObjs'[session']]
    /\ running' = t
    /\ UNCHANGED <<url, retries, backoff_factor>>

\* close()
close(t) ==
  /\ CanCall(t)
  /\ Begin(t, "close", "none", None, EmptyPayload, None, 0, "none")
  /\ message_id' = [message_id EXCEPT ![t] = None]
  /\ file_path' = [file_path EXCEPT ![t] = None]
  /\ sessionObjs' = ObjsAfterClose(session, sessionObjs)
  /\ session' = SessionAfterClose(session)
  /\ handed' = [handed EXCEPT ![t] = "none"]
  /\ pc' = [pc EXCEPT ![t] = "returned"]
  /\ running' = t
  /\ UNCHANGED <<url, retries, backoff_factor, own>>

(* ------------------------ the retry loop of _send_request ------------- *)

\* the sessions of send_file once the call of task t is over: send_file's
\* "async with" closes the session it created
OwnAtExit(t) ==
  IF op[t] = "send_file" THEN [own EXCEPT ![t] = "closed"] ELSE own

\* return v
Return(t, v) ==
  /\ pc' = [pc EXCEPT ![t] = "returned"]
  /\ result' = [result EXCEPT ![t] = v]
  /\ own' = OwnAtExit(t)
  /\ running' = t
  /\ UNCHANGED <<client, sessionObjs, ncalls, op, locals, slept, handed, raised>>

\* an exception no except clause catches leaves _send_request
Propagate(t, cls) ==
  /\ pc' = [pc EXCEPT ![t] = "raised"]
  /\ raised' = [raised EXCEPT ![t] = cls]
  /\ own' = OwnAtExit(t)
  /\ running' = t
  /\ UNCHANGED <<client, sessionObjs, ncalls, op, locals, slept, handed, result>>

\* attempt += 1; backoff_time = ...; time.sleep(backoff_time): the thread
\* of the event loop is now inside time.sleep
Backoff(t) ==
  LET a == NextAttempt(attempt[t])
      b == BackoffTime(backoff_factor, a)
  IN /\ attempt' = [attempt EXCEPT ![t] = a]
     /\ backoff_time' = [backoff_time EXCEPT ![t] = b]
     /\ slept' = [slept EXCEPT ![t] = Append(@, b)]
     /\ pc' = [pc EXCEPT ![t] = "sleep"]
     /\ running' = t
     /\ UNCHANGED <<client, sessionObjs, own, ncalls, op, message_id, file_path, method,
                    req_url, data, files, lsession, handed, result, raised>>

\* the try statement with outcome e of the request: the body returns the
\* decoded response, or an except clause catches the exception (e is unbound
\* again when the clause is left without returning)
Handle(t, e) ==
  LET clause == ExceptClause(e.cls)
  IN IF e.cls = "ok"
     THEN Return(t, SuccessResult(e)) /\ last' = [last EXCEPT ![t] = e]
     ELSE IF clause = "none"
     THEN Propagate(t, e.cls) /\ last' = [last EXCEPT ![t] = e]
     ELSE IF LastAttempt(attempt[t], retries)
     THEN Return(t, ErrorResult(clause, e)) /\ last' = [last EXCEPT ![t] = e]
     ELSE Backoff(t) /\ last' = [last EXCEPT ![t] = NoOutcome]

\* while attempt <= self.retries: ... session.request(method, url, ...)
\* A request on a closed session raises RuntimeError at once; otherwise the
\* task is suspended until the response arrives.
Loop(t) ==
  /\ pc[t] = "loop"
  /\ running = t
  /\ IF LoopCond(attempt[t], retries)
     THEN /\ reqs' = [reqs EXCEPT ![t] = Append(@, <<method[t], req_url[t], lsession[t], data[t]>>)]
          /\ IF StateOf(lsession[t]) = "closed"
             THEN Handle(t, Exc("RuntimeError"))
             ELSE /\ pc' = [pc EXCEPT ![t] = "await"]
                  /\ running' = 0
                  /\ UNCHANGED <<client, sessionObjs, own, ncalls, op, locals, last, slept,
                                 handed, result, raised>>
     ELSE Return(t, None) /\ UNCHANGED <<last, reqs>>

\* the event loop resumes the task with the outcome of its request
Complete(t, o) ==
  /\ pc[t] = "await"
  /\ running = 0
  /\ Handle(t, o)
  /\ UNCHANGED reqs

\* time.sleep returns; back to the loop test
Wake(t) ==
  /\ pc[t] = "sleep"
  /\ running = t
  /\ pc' = [pc EXCEPT ![t] = "loop"]
  /\ UNCHANGED <<client, sessionObjs, own, running, ncalls, op, locals, history>>

\* the caller of the operation has its result (or its exception); the frame
\* of the call is gone and the task gives up the thread
Done(t) ==
  /\ Finished(t)
  /\ running = t
  /\ pc' = [pc EXCEPT ![t] = "idle"]
  /\ running' = 0
  /\ op' = [op EXCEPT ![t] = "none"]
  /\ message_id' = [message_id EXCEPT ![t] = None]
  /\ file_path' = [file_path EXCEPT ![t] = None]
  /\ method' = [method EXCEPT ![t] = "none"]
  /\ req_url' = [req_url EXCEPT ![t] = None]
  /\ data' = [data EXCEPT ![t] = EmptyPayload]
  /\ files' = [files EXCEPT ![t] = None]
  /\ lsession' = [lsession EXCEPT ![t] = 0]
  /\ own' = [own EXCEPT ![t] = "none"]
  /\ attempt' = [attempt EXCEPT ![t] = 0]
  /\ backoff_time' = [backoff_time EXCEPT ![t] = 0]
  /\ last' = [last EXCEPT ![t] = NoOutcome]
  /\ reqs' = [reqs EXCEPT ![t] = <<>>]
  /\ slept' = [slept EXCEPT ![t] = <<>>]
  /\ handed' = [handed EXCEPT ![t] = "none"]
  /\ result' = [result EXCEPT ![t] = None]
  /\ raised' = [raised EXCEPT ![t] = "none"]
  /\ UNCHANGED <<client, sessionObjs, ncalls>>

Next ==
  \E t \in Tasks :
    \/ send_message(t)
    \/ send_embed(t)
    \/ send_file(t)
    \/ edit_message(t)
    \/ delete_message(t)
    \/ get_webhook_info(t)
    \/ close(t)
    \/ Loop(t)
    \/ \E o \in Outcomes : Complete(t, o)
    \/ Wake(t)
    \/ Done(t)

Spec == Init /\ [][Next]_vars

\* Every request the network was given completes, every time.sleep returns,
\* and the event loop runs a task that is ready to run.
FairSpec ==
  /\ Spec
  /\ \A t \in Tasks :
       /\ WF_vars(Loop(t))
       /\ WF_vars(\E o \in Outcomes : Complete(t, o))
       /\ WF_vars(Wake(t))
       /\ WF_vars(Done(t))

(* ------------------------------ properties ----------------------------- *)

\* the operations that go through _send_request
DispatchOps ==
  {"send_message", "send_embed", "send_file", "edit_message", "delete_message",
   "get_webhook_info"}

\* an error-descriptor mapping: a dict whose only key is "error"
IsError(v) == v[1] = "dict" /\ DOMAIN v[2] = {"error"}

\* the latest attempt of task t failed with an exception of the three
\* categories the retry loop distinguishes
FailedLast(t) ==
  last[t].cls \in {"ClientResponseError", "ClientConnectionError", "RuntimeError"}

\* C1: for every retry count r >= 0, a call of _send_request whose attempts
\* all fail (HTTP-response, transport or unexpected error) ends by returning
\* an error result after exactly r + 1 attempts.
\* (A finished call none of whose attempts succeeded or was cancelled is one
\* whose attempts all failed: a success or a cancellation ends the call.)
C1_PermanentFailure ==
  \A t \in Tasks :
    (/\ retries >= 0 /\ Finished(t) /\ op[t] \in DispatchOps
     /\ last[t].cls \notin {"ok", "CancelledError"}
     /\ raised[t] # "FileNotFoundError")
      => /\ pc[t] = "returned"
         /\ FailedLast(t)
         /\ Len(reqs[t]) = retries + 1
         /\ IsError(result[t])

C1_Witness ==
  \E t \in Tasks :
    /\ retries = 2 /\ pc[t] = "returned" /\ FailedLast(t)
    /\ Len(reqs[t]) = 3 /\ IsError(result[t])

\* C2: in every state of a call, the HTTP attempts issued so far number at
\* most retries + 1, and the attempt counter is at most retries while an
\* attempt is in flight.
C2_AttemptsBounded ==
  \A t \in Tasks :
    /\ Len(reqs[t]) <= retries + 1
    /\ pc[t] = "await" => attempt[t] <= retries

C2_Witness ==
  \E t \in Tasks : pc[t] = "await" /\ retries = 2 /\ Len(reqs[t]) = 3

\* C3: the k-th sleep of a call (k >= 1) lasts backoff_factor * 2^k: the
\* first lasts twice the factor, each later one twice the one before it, and
\* for a positive factor the delays strictly increase.
C3_BackoffDelays ==
  \A t \in Tasks :
    /\ Len(slept[t]) >= 1 => slept[t][1] = 2 * backoff_factor
    /\ \A k \in 1..(Len(slept[t]) - 1) :
         /\ slept[t][k + 1] = 2 * slept[t][k]
         /\ backoff_factor > 0 => slept[t][k] < slept[t][k + 1]
    /\ pc[t] = "sleep" => backoff_time[t] = slept[t][Len(slept[t])]

C3_Witness ==
  \E t \in Tasks :
    pc[t] = "sleep" /\ backoff_factor = 3 /\ slept[t] = <<6, 12>>

\* C4: when an attempt of a call succeeds (2xx, decodable body), the call
\* returns that decoded body at once, and from then on the call issues no
\* further HTTP attempt and performs no further sleep.
C4_SuccessShortCircuits ==
  [][\A t \in Tasks :
       /\ (last[t].cls # "ok" /\ last'[t].cls = "ok")
            => /\ pc'[t] = "returned"
               /\ result'[t] = last'[t].val
               /\ result'[t] \in Bodies
               /\ Len(reqs'[t]) \in 1..(retries + 1)
               /\ reqs'[t] = reqs[t]
               /\ slept'[t] = slept[t]
       /\ last[t].cls = "ok"
            => /\ pc[t] = "returned"
               /\ pc'[t] \in {"returned", "idle"}
               /\ Len(reqs'[t]) <= Len(reqs[t])
               /\ Len(slept'[t]) <= Len(slept[t])
    ]_vars

C4_Witness ==
  \E t \in Tasks :
    /\ pc[t] = "returned" /\ last[t].cls = "ok" /\ Len(reqs[t]) = 2
    /\ result[t] = Dict([id |-> "1"])

\* the message each category of failure gets
CategoryMessage(cls) ==
  CASE cls = "ClientResponseError" -> "Max retries reached: "
    [] cls = "ClientConnectionError" -> "Request failed: "
    [] cls = "RuntimeError" -> "Unexpected error: "
    [] OTHER -> "?"

\* task t takes the step in which its last permitted attempt fails
LastAttemptFails(t) ==
  /\ retries >= 0
  /\ attempt[t] = retries
  /\ \/ /\ pc[t] = "await" /\ pc'[t] # "await"
        /\ last'[t].cls \notin {"ok", "CancelledError"}
     \/ /\ pc[t] = "loop" /\ pc'[t] # "loop"
        /\ StateOf(lsession[t]) = "closed"

\* C5: when the last permitted attempt (attempt == retries) fails, the call
\* returns in that step, without sleeping and without raising, the mapping
\* {"error": message} whose message names the category of that failure; with
\* retries = 2, backoff_factor = 1 and a final transport error that is 3
\* attempts, sleeps of 2 then 4 and "Request failed: <detail>".
C5_LastFailureReturnsError ==
  [][\A t \in Tasks :
       LastAttemptFails(t)
         => /\ pc'[t] = "returned"
            /\ raised'[t] = "none"
            /\ slept'[t] = slept[t]
            /\ Len(slept'[t]) = retries
            /\ FailedLast(t)'
            /\ result'[t] = Dict([error |-> <<CategoryMessage(last'[t].cls), "detail">>])
            /\ (retries = 2 /\ backoff_factor = 1 /\ last'[t].cls = "ClientConnectionError")
                 => /\ Len(reqs'[t]) = 3
                    /\ slept'[t] = <<2, 4>>
                    /\ result'[t] = Dict([error |-> <<"Request failed: ", "detail">>])
    ]_vars

C5_Witness ==
  \E t \in Tasks :
    /\ retries = 2 /\ backoff_factor = 1 /\ pc[t] = "returned"
    /\ last[t].cls = "ClientConnectionError"
    /\ slept[t] = <<2, 4>> /\ Len(reqs[t]) = 3
    /\ result[t] = Dict([error |-> <<"Request failed: ", "detail">>])

\* C7 as stated: with retries = 2 and backoff_factor = 1, a call whose third
\* attempt succeeds with {"id": "1"} after two failures returns {"id": "1"}
\* and has slept exactly once, for 2 units.
C7_OneSleep ==
  \A t \in Tasks :
    (/\ retries = 2 /\ backoff_factor = 1 /\ pc[t] = "returned"
     /\ last[t] = Ok(Dict([id |-> "1"])) /\ Len(reqs[t]) = 3)
      => result[t] = Dict([id |-> "1"]) /\ slept[t] = <<2>>

\* C7 amended: that call returns {"id": "1"} and has slept exactly twice,
\* once after each failed attempt: 2 units, then 4 units.
C7_TwoSleeps ==
  \A t \in Tasks :
    (/\ retries = 2 /\ backoff_factor = 1 /\ pc[t] = "returned"
     /\ last[t] = Ok(Dict([id |-> "1"])) /\ Len(reqs[t]) = 3)
      => result[t] = Dict([id |-> "1"]) /\ slept[t] = <<2, 4>>

C7_Witness ==
  \E t \in Tasks :
    /\ retries = 2 /\ backoff_factor = 1 /\ pc[t] = "returned"
    /\ last[t].cls = "ok" /\ Len(reqs[t]) = 3
    /\ result[t] = Dict([id |-> "1"]) /\ Len(slept[t]) = 2

\* how a call of a dispatching operation may be over when retries >= 0: by
\* returning a decoded body or an error descriptor, by the cancellation of
\* the task, or, for send_file, by open() failing before _send_request
ProperExit(t) ==
  /\ pc[t] = "returned" => result[t] \in Bodies \/ IsError(result[t])
  /\ pc[t] = "raised"
       => \/ raised[t] = "CancelledError"
          \/ op[t] = "send_file" /\ raised[t] = "FileNotFoundError" /\ reqs[t] = <<>>

\* C6: with retries >= 0 every call of _send_request terminates (each HTTP
\* call and each sleep completing), and it ends only by returning a success
\* body or an error descriptor: no HTTP-response, transport or unexpected
\* failure of an attempt leaves the loop as a raised error, and the loop is
\* never left without a result.
C6_TerminatesWithResult ==
  /\ [](retries >= 0 => \A t \in Tasks : op[t] \in DispatchOps => ProperExit(t))
  /\ \A t \in Tasks : (retries >= 0 /\ InCall(t)) ~> Finished(t)

C6_Witness ==
  \E t \in Tasks :
    /\ retries = 1 /\ pc[t] = "returned" /\ op[t] \in DispatchOps
    /\ last[t].cls = "RuntimeError" /\ IsError(result[t]) /\ Len(slept[t]) = 1

\* C8 as stated: the backoff sleep suspends only the calling task, so while
\* one task is in its backoff wait any other task whose request has been
\* answered is able to take its step.
C8_SleepYields ==
  \A t \in Tasks, u \in Tasks :
    (t # u /\ pc[t] = "sleep" /\ pc[u] = "await")
      => ENABLED (\E o \in Outcomes : Complete(u, o))

\* task t takes the step that is the call close()
CloseStep(t) == pc[t] = "idle" /\ pc'[t] = "returned" /\ op'[t] = "close"

\* C9 as stated: close() on a client whose shared session is live closes
\* that session and clears the client's session reference.
C9_CloseClears ==
  [][\A t \in Tasks :
       (CloseStep(t) /\ session # 0 /\ sessionObjs[session] = "live")
         => sessionObjs'[session] = "closed" /\ session' = 0
    ]_vars

\* C9 amended: close() on a client whose shared session is live closes that
\* session and leaves the client's session reference as it was: after
\* close() the client still holds the session, now closed.
C9_CloseKeepsReference ==
  [][\A t \in Tasks :
       (CloseStep(t) /\ session # 0 /\ sessionObjs[session] = "live")
         => /\ sessionObjs'[session] = "closed"
            /\ session' = session
            /\ \A i \in DOMAIN sessionObjs : i # session => sessionObjs'[i] = sessionObjs[i]
    ]_vars

C9_Witness ==
  \E t \in Tasks :
    /\ pc[t] = "returned" /\ op[t] = "close"
    /\ session # 0 /\ sessionObjs[session] = "closed"

\* task t takes the step in which _send_request calls _get_session
GetSessionStep(t) ==
  pc[t] = "idle" /\ pc'[t] = "loop" /\ op'[t] \in DispatchOps \ {"send_file"}

\* C10 as stated: every session _get_session returns is live when it is
\* returned, also when the dispatch follows a close().
C10_NeverClosed ==
  \A t \in Tasks : handed[t] # "closed"

\* C10 amended: _get_session returns the stored session whenever one is
\* stored, be it live or closed, and creates and stores a new live one only
\* when none is stored; the session it returns is the one the attempts of
\* the call use. A dispatch that follows a close() is handed the closed
\* session.
C10_StoredSessionReturned ==
  [][\A t \in Tasks :
       GetSessionStep(t)
         => /\ lsession'[t] = session'
            /\ handed'[t] = sessionObjs'[session']
            /\ session = 0
                 => /\ session' = Len(sessionObjs) + 1
                    /\ sessionObjs' = Append(sessionObjs, "live")
            /\ session # 0
                 => /\ session' = session
                    /\ sessionObjs' = sessionObjs
                    /\ handed'[t] = sessionObjs[session]
    ]_vars

C10_Witness ==
  \E t \in Tasks :
    /\ pc[t] = "loop" /\ op[t] = "send_message" /\ handed[t] = "closed"
    /\ lsession[t] = session /\ sessionObjs[session] = "closed"


\* C11: close() on a client that holds no session changes nothing, closes
\* nothing and does not raise; close() on a client whose session is already
\* closed (a second close()) changes nothing either; and after any close()
\* the stored session, if there is one, is closed.
C11_CloseIdempotent ==
  [][\A t \in Tasks : CloseStep(t) =>
       /\ raised'[t] = "none"
       /\ client' = client
       /\ own' = own
       /\ (session = 0 \/ sessionObjs[session] = "closed") => sessionObjs' = sessionObjs
       /\ session' # 0 => sessionObjs'[session'] = "closed"]_vars

C11_Witness ==
  \E t \in Tasks : /\ op[t] = "close" /\ pc[t] = "returned" /\ raised[t] = "none"
                    /\ session = 0 /\ sessionObjs = <<>> /\ ncalls = 2

LiveSessions == {i \in DOMAIN sessionObjs : sessionObjs[i] = "live"}

\* at most one shared session is live, it is the stored one, and it is the
\* one every task on the shared path holds
OneLive ==
  /\ Cardinality(LiveSessions) <= 1
  /\ LiveSessions \subseteq {session}
  /\ \A t \in Tasks : lsession[t] > 0 => lsession[t] = session

\* C12: at most one shared session is live at any time and it is the stored
\* one; a shared session is created only by a step that finds none stored;
\* a dispatch that finds a session stored uses it and creates nothing.
C12_OneLiveSession ==
  [][/\ OneLive /\ OneLive'
     /\ Len(sessionObjs') > Len(sessionObjs) =>
         /\ session = 0
         /\ Len(sessionObjs') = Len(sessionObjs) + 1
         /\ session' = Len(sessionObjs')
     /\ \A t \in Tasks : (GetSessionStep(t) /\ session # 0) =>
           /\ Len(sessionObjs') = Len(sessionObjs)
           /\ lsession'[t] = session]_vars

C12_Witness ==
  /\ ncalls = 3 /\ sessionObjs = <<"live">> /\ session = 1
  /\ \A t \in Tasks : pc[t] = "await" /\ lsession[t] = 1

\* a step taken by task t in, into or out of a send_file call
SendFileStep(t) == pc'[t] # pc[t] /\ (op[t] = "send_file" \/ op'[t] = "send_file")

\* task t, if in send_file, works on the session it made for itself, which is
\* live during the call and closed once the call has ended
OnOwnSession(t) ==
  op[t] = "send_file" =>
    /\ lsession[t] = OwnRef(t)
    /\ handed[t] = "none"
    /\ \A k \in 1..Len(reqs[t]) : reqs[t][k][3] = OwnRef(t)
    /\ InCall(t) => own[t] = "live"
    /\ Finished(t) => own[t] = "closed"

\* C13: every request of send_file goes over the session send_file made for
\* itself, which is live during the call and closed once the call has ended,
\* however it ends; send_file is never handed the shared session, and no
\* step of a send_file call changes the client's session reference or any
\* shared session.
C13_DedicatedSession ==
  [][\A t \in Tasks : SendFileStep(t) =>
       /\ session' = session
       /\ sessionObjs' = sessionObjs
       /\ OnOwnSession(t)']_vars

C13_Witness ==
  \E t \in Tasks : /\ op[t] = "send_file" /\ pc[t] = "returned" /\ IsError(result[t])
                    /\ Len(reqs[t]) = 3 /\ own[t] = "closed"
                    /\ session = 1 /\ sessionObjs = <<"live">>

\* C14: a send_file whose file cannot be opened ends by raising the file
\* error: it returns nothing, no request is issued and no sleep happens.
C14_FileErrorPropagates ==
  \A t \in Tasks : (op[t] = "send_file" /\ file_path[t] = Str("missing")) =>
     /\ pc[t] = "raised"
     /\ raised[t] = "FileNotFoundError"
     /\ result[t] = None
     /\ last[t] = NoOutcome
     /\ reqs[t] = <<>>
     /\ slept[t] = <<>>

C14_Witness ==
  \E t \in Tasks : /\ op[t] = "send_file" /\ file_path[t] = Str("missing")
                    /\ raised[t] = "FileNotFoundError" /\ retries = 2

\* C15: every request of edit_message is a PATCH, and every request of
\* delete_message a DELETE with the empty payload, to the url of the message
\* whose id was given, base url + "/messages/" + id, and never to the base url.
C15_MessageUrlEveryAttempt ==
  \A t \in Tasks : \A k \in 1..Len(reqs[t]) :
     /\ op[t] = "edit_message" =>
          /\ reqs[t][k][1] = "PATCH"
          /\ reqs[t][k][2] = Str(<<"base", "/messages/", message_id[t][2]>>)
          /\ reqs[t][k][2] # BaseUrl
     /\ op[t] = "delete_message" =>
          /\ reqs[t][k][1] = "DELETE"
          /\ reqs[t][k][2] = Str(<<"base", "/messages/", message_id[t][2]>>)
          /\ reqs[t][k][2] # BaseUrl
          /\ DOMAIN reqs[t][k][4] = {}

C15_Witness ==
  \E t, u \in Tasks :
     /\ op[t] = "delete_message" /\ message_id[t] = Str("42") /\ Len(reqs[t]) = 3
     /\ op[u] = "edit_message" /\ message_id[u] = Str("42") /\ Len(reqs[u]) = 2

\* the embed mapping in the payload of a send_embed call
EmbedOf(t) == data[t].embeds[2][1][2]

\* a send_embed call that was given no footer
NoFooterGiven(t) ==
  /\ op[t] = "send_embed"
  /\ "footer" \notin DOMAIN EmbedOf(t) \/ EmbedOf(t).footer = None

\* C16 as stated: the embed built from a title and a description alone has
\* color 0, an empty fields list and no footer, image or thumbnail key, and
\* is the only element of embeds.
C16_OptionalKeysAbsent ==
  \A t \in Tasks : NoFooterGiven(t) =>
     /\ EmbedOf(t).color = Num(0)
     /\ EmbedOf(t).fields = List(<<>>)
     /\ DOMAIN EmbedOf(t) \cap {"footer", "image", "thumbnail"} = {}
     /\ data[t].embeds[1] = "list" /\ Len(data[t].embeds[2]) = 1

\* C16 amended: the embed built from a title and a description alone has
\* color 0, an empty fields list and the keys footer, image and thumbnail
\* with the value None; it is the only element of embeds and every request
\* of the call carries it.
C16_OptionalKeysNull ==
  \A t \in Tasks : NoFooterGiven(t) =>
     /\ DOMAIN EmbedOf(t) =
          {"title", "description", "color", "fields", "footer", "image", "thumbnail"}
     /\ EmbedOf(t).title = Str("T") /\ EmbedOf(t).description = Str("D")
     /\ EmbedOf(t).color = Num(0)
     /\ EmbedOf(t).fields = List(<<>>)
     /\ EmbedOf(t).footer = None /\ EmbedOf(t).image = None /\ EmbedOf(t).thumbnail = None
     /\ data[t].embeds[1] = "list" /\ Len(data[t].embeds[2]) = 1
     /\ data[t].content = None
     /\ \A k \in 1..Len(reqs[t]) : reqs[t][k][1] = "POST" /\ reqs[t][k][4] = data[t]

C16_Witness ==
  \E t \in Tasks : NoFooterGiven(t) /\ pc[t] = "await" /\ Len(reqs[t]) = 2

\* C17: the base url stays the one given to the constructor, and no step
\* changes the url, the retry limit or the backoff factor.
C17_ConfigurationFixed ==
  [][/\ url = BaseUrl
     /\ url' = url /\ retries' = retries /\ backoff_factor' = backoff_factor]_vars

C17_Witness ==
  \E t \in Tasks : /\ op[t] = "edit_message" /\ pc[t] = "returned" /\ Len(reqs[t]) = 3
                    /\ ncalls = 3 /\ url = BaseUrl /\ retries = 2 /\ backoff_factor = 3

SharedOps == DispatchOps \ {"send_file"}

\* C18 as stated: while the first dispatch of one task is in flight on a
\* client that had no session, the first dispatch of the other task can
\* create a second shared session.
C18_RaceCreatesTwo ==
  \A t, u \in Tasks :
     (t # u /\ ncalls = 1 /\ pc[t] = "await" /\ op[t] \in SharedOps /\ pc[u] = "idle")
       => ENABLED (send_message(u) /\ Len(sessionObjs') = 2)

\* C18 amended: no more than one shared session is ever created, and two
\* tasks whose dispatches on the shared path are in flight together hold the
\* same session, the one the first of them created.
C18_FirstDispatchesShare ==
  /\ Len(sessionObjs) <= 1
  /\ \A t, u \in Tasks :
       (InCall(t) /\ InCall(u) /\ op[t] \in SharedOps /\ op[u] \in SharedOps)
         => lsession[t] = 1 /\ lsession[u] = 1 /\ session = 1

C18_Witness ==
  /\ ncalls = 2 /\ Len(sessionObjs) = 1
  /\ \A t \in Tasks : pc[t] = "await" /\ op[t] \in SharedOps /\ Len(reqs[t]) = 1

\* C19: the step in which an attempt is cancelled leaves the call by raising
\* CancelledError, with no result; after it the call issues no request,
\* sleeps no more and never gets a result.
C19_CancellationPropagates ==
  [][\A t \in Tasks :
       /\ (last[t].cls # "CancelledError" /\ last'[t].cls = "CancelledError") =>
            /\ pc[t] = "await" /\ pc'[t] = "raised"
            /\ raised'[t] = "CancelledError"
            /\ result'[t] = None
            /\ reqs'[t] = reqs[t] /\ slept'[t] = slept[t]
       /\ last[t].cls = "CancelledError" =>
            /\ pc[t] = "raised" /\ pc'[t] \in {"raised", "idle"}
            /\ result'[t] = None
            /\ Len(reqs'[t]) <= Len(reqs[t]) /\ Len(slept'[t]) <= Len(slept[t])]_vars

C19_Witness ==
  \E t \in Tasks : /\ pc[t] = "raised" /\ raised[t] = "CancelledError" /\ retries = 2
                    /\ Len(reqs[t]) = 2 /\ Len(slept[t]) = 1 /\ result[t] = None

\* C20: with retries >= 0, sleeps and attempts alternate, the k-th sleep
\* coming after attempt k and before attempt k+1: while an attempt is in
\* flight and when the call has returned there is one sleep less than
\* attempts, during a sleep and before the next attempt as many; there are
\* never more than retries sleeps.
C20_SleepsBetweenAttempts ==
  \A t \in Tasks : (retries >= 0 /\ op[t] \in DispatchOps) =>
     /\ pc[t] \in {"await", "returned"} => Len(slept[t]) = Len(reqs[t]) - 1
     /\ pc[t] \in {"sleep", "loop"} => Len(slept[t]) = Len(reqs[t])
     /\ Len(slept[t]) <= retries

C20_Witness ==
  \E t \in Tasks : /\ pc[t] = "returned" /\ last[t].cls = "ok" /\ backoff_factor = 3
                    /\ Len(reqs[t]) = 3 /\ slept[t] = <<6, 12>>
====
